---- MODULE Spec2Model ----
(***************************************************************************)
(* Model of scripts/script_openai.py: one run of main(), a linear pipeline *)
(* over a source-control host (the `github` variable), an LLM endpoint, *)
(* the process environment, the random module and the wall clock.          *)
(*                                                                         *)
(* Strings are sequences of tokens (a token is a run of characters such as *)
(* "/", ".java" or a name), so that endswith, dirname, concatenation and   *)
(* join are computed and not assumed.  A Python dict is a sequence of      *)
(* <<key, value>> pairs in insertion order.                                *)
(***************************************************************************)
EXTENDS Integers, Sequences, FiniteSets, TLC

\* ------------------------------------------------------------------ bounds
\* largest `count` handed to pick_files when it is called on its own
MaxCount == 3
\* number of successive calls of apply_refactorings_to_files in SpecBranch
MaxCalls == 2

\* Python's None, where a string is expected
None == "<None>"

\* ------------------------------------------------------------ strings, dicts
endswith(s, suffix) ==
    /\ Len(s) >= Len(suffix)
    /\ SubSeq(s, Len(s) - Len(suffix) + 1, Len(s)) = suffix

\* os.path.dirname: everything before the last "/", "" when there is none
dirname(p) ==
    LET slashes == {i \in 1..Len(p) : p[i] = "/"}
    IN  IF slashes = {} THEN << >>
        ELSE SubSeq(p, 1, (CHOOSE i \in slashes : \A j \in slashes : j <= i) - 1)

RECURSIVE join(_, _)
\* sep.join(lines)
join(sep, lines) ==
    IF lines = << >> THEN << >>
    ELSE IF Len(lines) = 1 THEN lines[1]
    ELSE lines[1] \o sep \o join(sep, Tail(lines))

\* d[k] = v on a dict: replaces the value of an existing key in place,
\* appends a new key
dict_set(d, k, v) ==
    IF \E i \in 1..Len(d) : d[i][1] = k
    THEN [i \in 1..Len(d) |-> IF d[i][1] = k THEN <<k, v>> ELSE d[i]]
    ELSE Append(d, <<k, v>>)

\* truthiness of an environment value: None and "" are falsy
truthy(x) == x \notin {None, ""}

Min(a, b) == IF a <= b THEN a ELSE b

\* ------------------------------------------------------------------- paths
RssReader ==
    <<"reader-core", "/", "src", "/", "main", "/", "java", "/", "com", "/",
      "sismics", "/", "reader", "/", "core", "/", "dao", "/", "file", "/",
      "rss", "/", "RssReader", ".java">>
FeedService ==
    <<"reader-core", "/", "src", "/", "main", "/", "java", "/", "com", "/",
      "sismics", "/", "reader", "/", "core", "/", "service", "/",
      "FeedService", ".java">>

\* the list assigned to selected_files after the sampling
HardCodedFiles == <<RssReader, FeedService>>

\* entries the base branch's recursive tree may hold in a run of main: the
\* two files named in pick_files, another Java file, a blob that is no Java
\* file, and a directory whose name ends in ".java"
BasePool ==
    { [type |-> "blob", path |-> RssReader],
      [type |-> "blob", path |-> FeedService],
      [type |-> "blob", path |-> <<"a", "/", "X", ".java">>],
      [type |-> "blob", path |-> <<"README", ".md">>],
      [type |-> "tree", path |-> <<"gen", ".java">>] }

\* entries of the trees pick_files is called on directly: more Java files,
\* so that a directory holds more files than the count asked for
TreePool ==
    BasePool \cup
    { [type |-> "blob", path |-> <<"a", "/", "Y", ".java">>],
      [type |-> "blob", path |-> <<"b", "/", "Z", ".java">>] }

\* ---------------------------------------------------------------- pick_files
\* the filter of the grouping loop
is_candidate(item) == item.type = "blob" /\ endswith(item.path, <<".java">>)

\* dir_files: parent directory -> the matching paths under it
dir_files(tree) ==
    LET paths == {item.path : item \in {it \in tree : is_candidate(it)}}
    IN  [d \in {dirname(p) : p \in paths} |-> {p \in paths : dirname(p) = d}]

\* `if not dir_files`
no_dir_files(df) == DOMAIN df = {}

\* random.sample(population, k): any k distinct elements in any order
samples(population, k) ==
    {s \in [1..k -> population] : \A i, j \in 1..k : i # j => s[i] # s[j]}

sample_size(count, files_in_dir) == Min(count, Cardinality(files_in_dir))

\* the sample kept as it was drawn
selected_as_sampled(sampled) == sampled

\* the value selected_files holds when pick_files prints and returns it
selected_after_sampling(sampled) == HardCodedFiles

\* the lines pick_files prints before it returns
selected_lines(target_dir, files) ==
    <<<<"Selected files from directory", target_dir>>>>
      \o [k \in 1..Len(files) |-> <<" -", files[k]>>]

\* what pick_files does once it holds the tree: the value it returns or the
\* exception it raises, with the directory and the sample the random module
\* gave it
pick_files(tree, count) ==
    LET df == dir_files(tree)
    IN  IF no_dir_files(df)
        THEN {[kind |-> "return", value |-> << >>, target_dir |-> << >>,
               sampled |-> << >>, printed |-> << >>]}
        ELSE IF DOMAIN df = {}
        THEN {[kind |-> "raise", type |-> "IndexError",
               msg |-> "Cannot choose from an empty sequence"]}
        ELSE UNION {
          IF sample_size(count, df[d]) < 0
          THEN {[kind |-> "raise", type |-> "ValueError",
                 msg |-> "Sample larger than population or is negative"]}
          ELSE {[kind |-> "return", value |-> selected_after_sampling(s),
                 target_dir |-> d, sampled |-> s,
                 printed |-> selected_lines(d, selected_after_sampling(s))]
                  : s \in samples(df[d], sample_size(count, df[d]))}
          : d \in DOMAIN df}


\* ------------------------------------------------------------ the remote
repo_name == <<"Sanchit27-jalan", "/", "SE-Project-1">>
owner_login == <<"Sanchit27-jalan">>
parent_name == <<"upstream", "/", "SE-Project-1">>
\* repo.parent of a handle that has none (falsy)
NoParent == << >>
base_branch == <<"master">>
master_sha == <<"commit-0">>

\* decoded_content of a blob of the base branch
blob_content(path) == <<"source of ">> \o path
\* git's blob id is a function of the content
blob_sha(content) == <<"sha1:">> \o content

blob_paths(tree) == {item.path : item \in {it \in tree : it.type = "blob"}}

\* what the LLM may answer, to any prompt
Completions == {<<"text-A">>, <<"text-B">>}

\* -------------------------------------------------------------- exceptions
\* the classes the pipeline raises, all derived from Exception
ExceptionSubclasses ==
    {"Exception", "GithubException", "KeyError", "APIError", "ValueError",
     "IndexError"}

\* a handler that names the source-control library's exception only
main_catches_github_only(e) == e.type = "GithubException"

\* `except Exception as e` in main
main_catches(e) == e.type \in ExceptionSubclasses

\* --------------------------------------------------------------- the clock
\* readings of datetime.datetime.now()
\* (two in the same second, one later in the same minute, and days and
\* months of one and of two digits)
reading(month, day, second, microsecond) ==
    [year |-> 2025, month |-> month, day |-> day, hour |-> 0, minute |-> 0,
     second |-> second, microsecond |-> microsecond]
DateTimes ==
    { reading(1, 11, 0, 0), reading(1, 11, 0, 500000), reading(1, 11, 59, 0),
      reading(11, 1, 0, 0), reading(1, 1, 0, 0), reading(11, 11, 59, 500000) }

digits2(n) == <<n \div 10, n % 10>>
digits4(n) == <<n \div 1000, (n \div 100) % 10, (n \div 10) % 10, n % 10>>

\* fields written without zero padding, as "%-m%-d..." would
strftime_unpadded(now) ==
    LET plain(n) == IF n < 10 THEN <<n>> ELSE digits2(n)
    IN  digits4(now.year) \o plain(now.month) \o plain(now.day)
          \o plain(now.hour) \o plain(now.minute) \o plain(now.second)

\* now.strftime("%Y%m%d%H%M%S"): zero-padded fields, no microseconds
strftime(now) ==
    digits4(now.year) \o digits2(now.month) \o digits2(now.day)
      \o digits2(now.hour) \o digits2(now.minute) \o digits2(now.second)

branch_prefix == <<"openai-refactor-">>
make_branch_name(now) == branch_prefix \o strftime(now)

\* -------------------------------------------------------------------- state
VARIABLES
    environ,    \* os.environ: TOKEN and OPENAI_KEY
    github,     \* the remote: base tree, fork flag, parent, refs, pulls
    pc,         \* where the run stands
    loc,        \* the locals of main and of the function it is in
    calls,      \* every network call issued so far, with its outcome
    stdout,     \* what was printed
    exit,       \* "running", "returned" (main returned) or "raised"
    applied,    \* one entry per call of apply_refactorings_to_files
    probe       \* the last direct call of pick_files (SpecPick only)

vars == <<environ, github, pc, loc, calls, stdout, exit, applied, probe>>

NoLocals ==
    [selected_files |-> << >>, i |-> 1, original_code |-> << >>,
     design_smells |-> << >>, files_design_smells |-> << >>,
     files_refactored |-> << >>, branch_name |-> << >>, base_sha |-> << >>,
     j |-> 1, file_sha |-> << >>, ret |-> "create_pull"]

Remotes ==
    [tree : SUBSET BasePool, fork : BOOLEAN, parent : {NoParent, parent_name},
     branches : {<< >>}, pulls : {<< >>}]

Init ==
    /\ environ \in [TOKEN : {None, "", "ghp"}, OPENAI_KEY : {None, "sk"}]
    /\ github \in Remotes
    /\ pc = "get_repo"
    /\ loc = NoLocals
    /\ calls = << >>
    /\ stdout = << >>
    /\ exit = "running"
    /\ applied = << >>
    /\ probe = [called |-> FALSE]

\* an exception leaves the function it is raised in and every caller up to
\* main's handler, which prints it; main then returns
\* a handler inside a retry loop: the failing step is run again
raise_after_retry(out, e) ==
    /\ pc' = pc
    /\ stdout' = Append(out, <<"An error occurred:", e.msg>>)
    /\ exit' = exit

\* `out` is what has been printed when the exception is raised.
raise_after(out, e) ==
    /\ pc' = "done"
    /\ IF main_catches(e)
       THEN /\ stdout' = Append(out, <<"An error occurred:", e.msg>>)
            /\ exit' = "returned"
       ELSE /\ stdout' = out
            /\ exit' = "raised"

raise(e) == raise_after(stdout, e)

GithubException(what) == [type |-> "GithubException", msg |-> what]

\* ----------------------------------------------------------------- get_repo
\* a check that tests only for an unset variable
token_missing_unset_only(token) == token = None

\* `if not token` (repo_name is a non-empty literal)
token_missing(token) == ~truthy(token)

GetRepo ==
    /\ pc = "get_repo"
    /\ IF token_missing(environ.TOKEN)
       THEN /\ raise([type |-> "Exception",
                      msg |-> "TOKEN and REPOSITORY must be set as environment variables."])
            /\ UNCHANGED calls
       ELSE \E ok \in BOOLEAN :
              /\ calls' = Append(calls, [op |-> "get_repo", name |-> repo_name, ok |-> ok])
              /\ IF ok
                 THEN /\ stdout' = Append(stdout, <<"Connected to GitHub repository:", repo_name>>)
                      /\ pc' = "pick_files"
                      /\ UNCHANGED exit
                 ELSE raise(GithubException("get_repo rejected"))
    /\ UNCHANGED <<environ, github, loc, applied, probe>>


\* --------------------------------------------------------------- pick_files
\* entering (or re-entering) main's loop over selected_files
next_file_pc(i, selected_files) ==
    IF i > Len(selected_files) THEN "get_branch" ELSE "get_contents"

\* a check that tests for None and lets the empty list through
nothing_selected_if_none(selected_files) == selected_files = <<None>>

\* main's `if not selected_files`
nothing_selected(selected_files) == selected_files = << >>

\* main, lines 168-171: pick_files(repo, branch="master", count=2), then the
\* early return
PickFiles ==
    /\ pc = "pick_files"
    /\ \E ok \in BOOLEAN :
         /\ calls' = Append(calls, [op |-> "get_git_tree", ref |-> base_branch,
                                    recursive |-> TRUE, ok |-> ok])
         /\ IF ~ok
            THEN raise(GithubException("get_git_tree rejected")) /\ UNCHANGED loc
            ELSE \E r \in pick_files(github.tree, 2) :
                   IF r.kind = "raise"
                   THEN raise(r) /\ UNCHANGED loc
                   ELSE /\ loc' = [loc EXCEPT !.selected_files = r.value]
                        /\ IF nothing_selected(r.value)
                           THEN /\ stdout' = Append(stdout, <<"No eligible files found for refactoring.">>)
                                /\ pc' = "done"
                                /\ exit' = "returned"
                           ELSE /\ stdout' = stdout \o r.printed
                                /\ pc' = next_file_pc(1, r.value)
                                /\ UNCHANGED exit
    /\ UNCHANGED <<environ, github, applied, probe>>


\* ------------------------------------------------- refactor_file_with_llm
prompt_design_smells(original_code) ==
    <<"Analyze the following code for design smells and code quality metrics ... List any issues found and provide recommendations for improvement:\n\n">>
      \o original_code
      \o <<"\n\n", "Please provide a brief summary focusing on the most critical issues and metrics that exceed common thresholds.">>

prompt_refactor(design_smells, original_code) ==
    <<"Based on the following detected design smells:\n">>
      \o design_smells
      \o <<"\n\n", "Refactor the code below to address these issues and improve code quality. Return only the complete new file content:\n\n">>
      \o original_code

\* the user message call_openai sends
user_message(prompt, role) == <<role, ": ">> \o prompt

\* repo.get_contents(path, ref): the blob, or 404
has_blob(tree, path) == path \in blob_paths(tree)

current_file == loc.selected_files[loc.i]

\* line 85-86: the file's content on the branch main names
content_ref == base_branch

FetchOriginal ==
    /\ pc = "get_contents"
    /\ \E accepted \in BOOLEAN :
         LET ok == accepted /\ has_blob(github.tree, current_file)
             out == Append(stdout, <<"Processing file:", current_file>>)
             found == IF ok THEN [content |-> blob_content(current_file),
                                       sha |-> blob_sha(blob_content(current_file))]
                      ELSE << >>
         IN  /\ calls' = Append(calls, [op |-> "get_contents", path |-> current_file,
                                        ref |-> content_ref, found |-> found, ok |-> ok])
             /\ IF ok
                THEN /\ loc' = [loc EXCEPT !.original_code = found.content]
                     /\ stdout' = out
                     /\ pc' = "design_smells"
                     /\ UNCHANGED exit
                ELSE /\ raise_after(out, GithubException("get_contents rejected"))
                     /\ UNCHANGED loc
    /\ UNCHANGED <<environ, github, applied, probe>>

\* call_openai: the print, the key lookup, the request.  Each outcome is
\* the text returned or the exception raised, with the request sent (none
\* when the key is missing).
call_openai(prompt, role) ==
    LET request(ok, answer) ==
          [op |-> "chat.completions.create", model |-> "openai/gpt-4o-mini",
           content |-> user_message(prompt, role), answer |-> answer, ok |-> ok]
    IN  IF environ.OPENAI_KEY = None
        THEN {[kind |-> "raise", type |-> "KeyError", msg |-> "'OPENAI_KEY'",
               sent |-> << >>]}
        ELSE {[kind |-> "return", answer |-> a, sent |-> <<request(TRUE, a)>>]
                : a \in Completions}
             \cup {[kind |-> "raise", type |-> "APIError",
                    msg |-> "completion rejected",
                    sent |-> <<request(FALSE, << >>)>>]}

openai_line(role) == <<"[OpenAI]", role>>

AskDesignSmells ==
    /\ pc = "design_smells"
    /\ \E r \in call_openai(prompt_design_smells(loc.original_code), "Design Smell Finder") :
         LET out == Append(stdout, openai_line("Design Smell Finder"))
         IN  /\ calls' = calls \o r.sent
             /\ IF r.kind = "raise"
                THEN raise_after(out, r) /\ UNCHANGED loc
                ELSE /\ loc' = [loc EXCEPT !.design_smells = r.answer]
                     /\ pc' = "refactor"
                     /\ stdout' = out
                     /\ UNCHANGED exit
    /\ UNCHANGED <<environ, github, applied, probe>>

\* the second request, then main's lines 180-181 and the next iteration
AskRefactor ==
    /\ pc = "refactor"
    /\ \E r \in call_openai(prompt_refactor(loc.design_smells, loc.original_code), "Refactoring Expert") :
         LET out == Append(stdout, openai_line("Refactoring Expert"))
         IN  /\ calls' = calls \o r.sent
             /\ IF r.kind = "raise"
                THEN raise_after(out, r) /\ UNCHANGED loc
                ELSE /\ loc' = [loc EXCEPT
                           !.files_design_smells = dict_set(@, current_file, loc.design_smells),
                           !.files_refactored = dict_set(@, current_file, r.answer),
                           !.i = @ + 1]
                     /\ pc' = next_file_pc(loc.i + 1, loc.selected_files)
                     /\ stdout' = out
                     /\ UNCHANGED exit
    /\ UNCHANGED <<environ, github, applied, probe>>

\* ---------------------------------------------- apply_refactorings_to_files
commit_message == "Apply OpenAI-suggested refactorings for selected files"

files_updates == loc.files_refactored

\* the loop over files_updates.items(); after the last item the function
\* returns branch_name to its caller
next_update_pc(j, updates, ret) ==
    IF j > Len(updates) THEN ret ELSE "file_sha"

\* lines 119-124: the name from the clock, then the base branch's commit
StartBranch ==
    /\ pc = "get_branch"
    /\ \E now \in DateTimes, ok \in BOOLEAN :
         /\ applied' = Append(applied, [now |-> now, branch_name |-> make_branch_name(now)])
         /\ calls' = Append(calls, [op |-> "get_branch", branch |-> base_branch, ok |-> ok])
         /\ IF ok
            THEN /\ loc' = [loc EXCEPT !.branch_name = make_branch_name(now),
                                       !.base_sha = master_sha]
                 /\ pc' = "create_git_ref"
                 /\ UNCHANGED <<stdout, exit>>
            ELSE /\ raise(GithubException("get_branch rejected"))
                 /\ UNCHANGED loc
    /\ UNCHANGED <<environ, github, probe>>

\* lines 126-127
CreateGitRef ==
    /\ pc = "create_git_ref"
    /\ \E accepted \in BOOLEAN :
         LET ok == accepted /\ loc.branch_name \notin DOMAIN github.branches
             out == Append(stdout, <<"Creating new branch", loc.branch_name>>)
         IN  /\ calls' = Append(calls, [op |-> "create_git_ref",
                                        ref |-> <<"refs/heads/">> \o loc.branch_name,
                                        sha |-> loc.base_sha, ok |-> ok])
             /\ IF ok
                THEN /\ github' = [github EXCEPT !.branches =
                           (loc.branch_name :>
                              [base |-> loc.base_sha,
                               files |-> [p \in blob_paths(github.tree) |-> blob_content(p)],
                               commits |-> << >>]) @@ @]
                     /\ loc' = [loc EXCEPT !.j = 1]
                     /\ pc' = next_update_pc(1, files_updates, loc.ret)
                     /\ stdout' = out
                     /\ UNCHANGED exit
                ELSE /\ raise_after(out, GithubException("create_git_ref rejected"))
                     /\ UNCHANGED <<github, loc>>
    /\ UNCHANGED <<environ, applied, probe>>

update_path == files_updates[loc.j][1]
update_content == files_updates[loc.j][2]

\* the ref whose copy of the file gives the sha handed to update_file
sha_ref == loc.branch_name

\* line 134
FetchFileSha ==
    /\ pc = "file_sha"
    /\ \E accepted \in BOOLEAN :
         LET known == /\ sha_ref \in DOMAIN github.branches
                      /\ update_path \in DOMAIN github.branches[sha_ref].files
             ok == accepted /\ known
             out == Append(stdout, <<"Updating file:", update_path>>)
             found == IF ok THEN [content |-> github.branches[sha_ref].files[update_path],
                                       sha |-> blob_sha(github.branches[sha_ref].files[update_path])]
                      ELSE << >>
         IN  /\ calls' = Append(calls, [op |-> "get_contents", path |-> update_path,
                                        ref |-> sha_ref, found |-> found, ok |-> ok])
             /\ IF ok
                THEN /\ loc' = [loc EXCEPT !.file_sha = found.sha]
                     /\ pc' = "update_file"
                     /\ stdout' = out
                     /\ UNCHANGED exit
                ELSE /\ raise_after(out, GithubException("get_contents rejected"))
                     /\ UNCHANGED loc
    /\ UNCHANGED <<environ, github, applied, probe>>

\* writing back what the branch already holds
content_to_write_original == blob_content(update_path)

\* the content written for the current item
content_to_write == update_content

\* lines 135-141, and the step to the next item or the return
UpdateFile ==
    /\ pc = "update_file"
    /\ \E accepted \in BOOLEAN :
         LET b == loc.branch_name
             ok == /\ accepted
                   /\ b \in DOMAIN github.branches
                   /\ update_path \in DOMAIN github.branches[b].files
                   /\ loc.file_sha = blob_sha(github.branches[b].files[update_path])
         IN  /\ calls' = Append(calls, [op |-> "update_file", path |-> update_path,
                                        message |-> commit_message,
                                        content |-> content_to_write,
                                        sha |-> loc.file_sha, branch |-> b, ok |-> ok])
             /\ IF ok
                THEN /\ github' = [github EXCEPT
                           !.branches[b].files[update_path] = content_to_write,
                           !.branches[b].commits = Append(@, update_path)]
                     /\ loc' = [loc EXCEPT !.j = @ + 1]
                     /\ pc' = next_update_pc(loc.j + 1, files_updates, loc.ret)
                     /\ UNCHANGED <<stdout, exit>>
                ELSE /\ raise(GithubException("update_file rejected"))
                     /\ UNCHANGED <<github, loc>>
    /\ UNCHANGED <<environ, applied, probe>>


\* ------------------------------------------------------ create_pull_request
\* `if repo.fork and repo.parent`
targets_parent(repo) == repo.fork /\ repo.parent # NoParent

target_repo(repo) == IF targets_parent(repo) THEN repo.parent ELSE repo_name

\* a head that is never qualified with the owner
head_branch_unqualified(repo, branch_name) == branch_name

head_branch(repo, branch_name) ==
    IF targets_parent(repo) THEN owner_login \o <<":">> \o branch_name
    ELSE branch_name

pr_title == "OpenAI Refactoring: Automated Code Improvements"

\* pr.html_url of the pull request numbered `number` of `repo`
html_url(repo, number) == <<"https://github.com/">> \o repo \o <<"/pull/", number>>

\* the token for the backquote character
Backquote == "<backquote>"

\* main, lines 185-190: the header, then four lines per item of the dict
RECURSIVE file_sections(_)
file_sections(items) ==
    IF items = << >> THEN << >>
    ELSE << <<"### File: ", Backquote>> \o items[1][1] \o <<Backquote>>,
            <<"**Design Smells Detected:**">>,
            items[1][2],
            <<"\n">> >>
         \o file_sections(Tail(items))

pr_body_lines(files_design_smells) ==
    << <<"## OpenAI LLM Refactoring Summary\n">> >> \o file_sections(files_design_smells)

make_pr_body(files_design_smells) == join(<<"\n">>, pr_body_lines(files_design_smells))

\* a body built from the rewritten files instead of the smell reports
summarised_refactored == loc.files_refactored

\* the dict main iterates to build the body (line 186)
summarised == loc.files_design_smells

\* main, lines 185-195
CreatePull ==
    /\ pc = "create_pull"
    /\ \E ok \in BOOLEAN :
         LET target == target_repo(github)
             pull == [repo |-> target, title |-> pr_title,
                      body |-> make_pr_body(summarised),
                      head |-> head_branch(github, loc.branch_name),
                      base |-> base_branch]
             number == Cardinality({k \in 1..Len(github.pulls) : github.pulls[k].repo = target}) + 1
         IN  /\ calls' = Append(calls, [op |-> "create_pull", pull |-> pull, ok |-> ok])
             /\ IF ok
                THEN /\ github' = [github EXCEPT !.pulls = Append(@, pull)]
                     /\ stdout' = stdout \o <<<<"Pull Request created successfully:">>,
                                              html_url(target, number)>>
                     /\ pc' = "done"
                     /\ exit' = "returned"
                ELSE /\ raise(GithubException("create_pull rejected"))
                     /\ UNCHANGED github
    /\ UNCHANGED <<environ, loc, applied, probe>>

Next ==
    \/ GetRepo
    \/ PickFiles
    \/ FetchOriginal
    \/ AskDesignSmells
    \/ AskRefactor
    \/ StartBranch
    \/ CreateGitRef
    \/ FetchFileSha
    \/ UpdateFile
    \/ CreatePull

Spec == Init /\ [][Next]_vars

\* ------------------------------------------------- pick_files on its own
\* `if branch is None: branch = repo.default_branch`
default_branch == base_branch
resolve_branch(branch) == IF branch = << >> THEN default_branch ELSE branch

InitPick ==
    /\ environ = [TOKEN |-> "ghp", OPENAI_KEY |-> "sk"]
    /\ github \in [tree : SUBSET TreePool, fork : {FALSE}, parent : {NoParent},
                    branches : {<< >>}, pulls : {<< >>}]
    /\ pc = "probe"
    /\ loc = NoLocals
    /\ calls = << >>
    /\ stdout = << >>
    /\ exit = "running"
    /\ applied = << >>
    /\ probe = [called |-> FALSE]

\* pick_files(repo, branch, count) called by a caller that keeps what it
\* gets: the returned list or the exception
CallPickFiles ==
    /\ pc = "probe"
    /\ \E count \in -1..MaxCount, branch \in {<< >>, base_branch}, ok \in BOOLEAN :
         /\ calls' = Append(calls, [op |-> "get_git_tree", ref |-> resolve_branch(branch),
                                    recursive |-> TRUE, ok |-> ok])
         /\ \E r \in IF ok THEN pick_files(github.tree, count)
                      ELSE {GithubException("get_git_tree rejected") @@ [kind |-> "raise"]} :
              /\ probe' = [called |-> TRUE, count |-> count, branch |-> branch, outcome |-> r]
              /\ stdout' = IF r.kind = "return" THEN stdout \o r.printed ELSE stdout
    /\ pc' = "probed"
    /\ UNCHANGED <<environ, github, loc, exit, applied>>

SpecPick == InitPick /\ [][CallPickFiles]_vars

\* --------------------------------- apply_refactorings_to_files on its own
\* dicts handed over as files_updates
UpdateDicts ==
    { << >>,
      << <<RssReader, <<"text-A">> >> >>,
      << <<RssReader, <<"text-A">> >>, <<FeedService, <<"text-B">> >> >> }

InitBranch ==
    /\ environ = [TOKEN |-> "ghp", OPENAI_KEY |-> "sk"]
    /\ github = [tree |-> BasePool, fork |-> FALSE, parent |-> NoParent,
                 branches |-> << >>, pulls |-> << >>]
    /\ pc = "get_branch"
    /\ \E d \in UpdateDicts : loc = [NoLocals EXCEPT !.files_refactored = d, !.ret = "done"]
    /\ calls = << >>
    /\ stdout = << >>
    /\ exit = "running"
    /\ applied = << >>
    /\ probe = [called |-> FALSE]

\* the caller calls the function again, with the same dict, after it
\* returned or raised
CallAgain ==
    /\ pc = "done"
    /\ Len(applied) < MaxCalls
    /\ pc' = "get_branch"
    /\ exit' = "running"
    /\ loc' = [loc EXCEPT !.j = 1]
    /\ UNCHANGED <<environ, github, calls, stdout, applied, probe>>

NextBranch ==
    \/ StartBranch
    \/ CreateGitRef
    \/ FetchFileSha
    \/ UpdateFile
    \/ CallAgain

SpecBranch == InitBranch /\ [][NextBranch]_vars



\* ======================================================================
\* Properties
\* ======================================================================
LastCall == calls[Len(calls)]
LastLine == stdout[Len(stdout)]
TokenAbsent == environ.TOKEN \in {None, ""}
IsErrorLine(line) == Len(line) = 2 /\ line[1] = "An error occurred:"

\* C1: when TOKEN is absent or empty, the run issues no network call at all
\* (no source-control call, no LLM call), and it ends with get_repo's
\* explicit error as the only thing printed.
C1_NoTokenNoNetworkCall ==
    TokenAbsent =>
      /\ calls = << >>
      /\ pc \in {"get_repo", "done"}
      /\ pc = "done" =>
           /\ exit = "returned"
           /\ stdout = << <<"An error occurred:",
                            "TOKEN and REPOSITORY must be set as environment variables.">> >>

C1_Witness == pc = "done" /\ environ.TOKEN = "" /\ Len(stdout) = 1

\* a tree with no blob whose path ends in ".java"
NoJavaBlob(tree) ==
    \A it \in tree : ~(it.type = "blob" /\ it.path[Len(it.path)] = ".java")

\* C3: when the base tree has no blob ending in ".java", the only calls of
\* the run are get-repository and the tree listing; once the listing
\* succeeded the selection is empty, the run has printed that no eligible
\* files were found and has returned, with nothing created on the remote.
C3_NoMatchStopsRun ==
    NoJavaBlob(github.tree) =>
      /\ \A k \in 1..Len(calls) : calls[k].op \in {"get_repo", "get_git_tree"}
      /\ Len(calls) <= 2
      /\ github.branches = << >> /\ github.pulls = << >>
      /\ loc.selected_files = << >>
      /\ (calls # << >> /\ LastCall.op = "get_git_tree" /\ LastCall.ok) =>
           /\ pc = "done" /\ exit = "returned"
           /\ LastLine = <<"No eligible files found for refactoring.">>

C3_Witness ==
    /\ NoJavaBlob(github.tree) /\ github.tree # {}
    /\ pc = "done" /\ Len(calls) = 2 /\ LastCall.ok

\* the run raised: the last call was rejected, or a required environment
\* variable was missing where it is read
RunRaised ==
    \/ TokenAbsent
    \/ calls # << >> /\ ~LastCall.ok
    \/ /\ environ.OPENAI_KEY = None
       /\ calls # << >> /\ LastCall.op = "get_contents" /\ LastCall.ok

\* C7: no exception leaves main: whatever raised (the missing TOKEN, a
\* rejected source-control or LLM call, the missing OPENAI_KEY), the run ends
\* with main returned and the error as the last line printed.
C7_HandlerCatchesAll ==
    /\ exit # "raised"
    /\ pc = "done" =>
         /\ exit = "returned"
         /\ RunRaised <=> IsErrorLine(LastLine)

C7_Witness ==
    /\ pc = "done" /\ exit = "returned" /\ environ.OPENAI_KEY = None
    /\ Len(calls) = 3 /\ LastLine = <<"An error occurred:", "'OPENAI_KEY'">>


IsPull(c) == c.op = "create_pull"
IsOkCompletion(c) == c.op = "chat.completions.create" /\ c.ok
IsRef(c) == c.op = "create_git_ref"
IsOkRef(c) == c.op = "create_git_ref" /\ c.ok
IsUpdate(c) == c.op = "update_file"
IsOkUpdate(c) == c.op = "update_file" /\ c.ok
IsOkPull(c) == c.op = "create_pull" /\ c.ok
PullCalls == SelectSeq(calls, IsPull)
OkPullCalls == SelectSeq(calls, IsOkPull)
OkCompletions == SelectSeq(calls, IsOkCompletion)
RefCalls == SelectSeq(calls, IsRef)
OkRefCalls == SelectSeq(calls, IsOkRef)
UpdateCalls == SelectSeq(calls, IsUpdate)
OkUpdateCalls == SelectSeq(calls, IsOkUpdate)

\* C4: the run issues at most one pull-request creation call.  For a fork
\* with its parent reference the call goes to the parent with head
\* `<owner login>:<branch>`; for a non-fork it goes to the repository itself
\* with the bare branch name.  The base is "master", the branch is the one
\* the run created, and what main prints last is the URL of the pull
\* request that the call created.
C4_PullTargetAndHead ==
    /\ Len(PullCalls) <= 1
    /\ \A k \in 1..Len(calls) :
         calls[k].op = "create_pull" =>
           LET p == calls[k].pull
           IN  /\ loc.branch_name \in DOMAIN github.branches
               /\ (github.fork /\ github.parent # NoParent) =>
                    /\ p.repo = github.parent
                    /\ p.head = <<"Sanchit27-jalan", ":">> \o loc.branch_name
               /\ ~github.fork =>
                    /\ p.repo = <<"Sanchit27-jalan", "/", "SE-Project-1">>
                    /\ p.head = loc.branch_name
               /\ p.base = <<"master">>
               /\ calls[k].ok =>
                    /\ github.pulls = <<p>>
                    /\ LastLine = <<"https://github.com/">> \o p.repo \o <<"/pull/", 1>>

C4_Witness ==
    /\ pc = "done" /\ github.fork /\ github.parent # NoParent
    /\ Len(github.pulls) = 1 /\ github.pulls[1].repo = github.parent

\* C5: when the pull request is requested, the selection holds two files,
\* each with one smell report (the answer to its first prompt) and one
\* rewritten content (the answer to its second prompt), and the body is the
\* header followed, in the order of the selection, by each file's path,
\* the "Design Smells Detected" line and that file's own smell report.
C5_PullBodyListsFilesInOrder ==
    \A k \in 1..Len(calls) :
      calls[k].op = "create_pull" =>
        LET sel == loc.selected_files
            llm == OkCompletions
            section(i) ==
              <<"### File: ", Backquote>> \o sel[i] \o <<Backquote>>
                \o <<"\n", "**Design Smells Detected:**", "\n">>
                \o llm[2 * i - 1].answer
                \o <<"\n", "\n">>
        IN  /\ Len(sel) = 2 /\ Len(llm) = 4
            /\ loc.files_design_smells =
                 << <<sel[1], llm[1].answer>>, <<sel[2], llm[3].answer>> >>
            /\ loc.files_refactored =
                 << <<sel[1], llm[2].answer>>, <<sel[2], llm[4].answer>> >>
            /\ calls[k].pull.body =
                 <<"## OpenAI LLM Refactoring Summary\n", "\n">>
                   \o section(1) \o <<"\n">> \o section(2)

\* the two smell reports differ, and so do each file's report and rewrite
C5_Witness ==
    /\ pc = "done" /\ Len(github.pulls) = 1
    /\ loc.files_design_smells[1][2] # loc.files_design_smells[2][2]
    /\ loc.files_design_smells[1][2] # loc.files_refactored[1][2]

\* C8: a rejected call is the last call of the run (no retry, no later
\* call).  The run issues at most one create-ref and one create-pull call.
\* The remote holds exactly what the accepted calls made: no branch, no
\* update and no pull request unless the ref was created; otherwise the one
\* new branch with the accepted updates, in order, and everything else as on
\* the base branch.  A pull request is requested only after every file of
\* the selection was updated.
C8_FailureStopsRun ==
    LET refs == OkRefCalls
        ups == OkUpdateCalls
        b == loc.branch_name
    IN  /\ \A k \in 1..(Len(calls) - 1) : calls[k].ok
        /\ Len(RefCalls) <= 1
        /\ Len(PullCalls) <= 1
        /\ Len(github.pulls) = Len(OkPullCalls)
        /\ refs = << >> =>
             /\ github.branches = << >>
             /\ UpdateCalls = << >>
             /\ PullCalls = << >>
        /\ refs # << >> =>
             /\ DOMAIN github.branches = {b}
             /\ refs[1].ref = <<"refs/heads/">> \o b
             /\ github.branches[b].commits = [k \in 1..Len(ups) |-> ups[k].path]
             /\ \A q \in DOMAIN github.branches[b].files :
                  github.branches[b].files[q] =
                    IF \E k \in 1..Len(ups) : ups[k].path = q
                    THEN ups[CHOOSE k \in 1..Len(ups) : ups[k].path = q].content
                    ELSE <<"source of ">> \o q
        /\ PullCalls # << >> =>
             /\ IsPull(LastCall)
             /\ Len(ups) = Len(loc.selected_files)
             /\ \A i \in 1..Len(ups) : ups[i].path = loc.selected_files[i]
        /\ (environ.OPENAI_KEY = None \/ TokenAbsent) => refs = << >>

\* the second file's update was rejected after the first was applied
C8_Witness ==
    /\ pc = "done" /\ calls # << >> /\ IsUpdate(LastCall) /\ ~LastCall.ok
    /\ Len(OkUpdateCalls) = 1
    /\ Len(github.branches[loc.branch_name].commits) = 1
    /\ github.pulls = << >>

\* C10: in a run that ends with the pull request created, the calls are, in
\* order: for each selected file the fetch of its content on "master", the
\* smell request built from that content, the rewrite request built from
\* the smell answer and that content; then the branch; then for each
\* selected file the fetch of the file on the new branch and one update
\* whose content is the same file's rewrite answer and whose sha is the one
\* that fetch returned; the branch then holds the rewrite answer.
C10_UpdatesWriteTheRefactoring ==
    (pc = "done" /\ calls # << >> /\ IsOkPull(LastCall)) =>
      LET sel == loc.selected_files
          n == Len(sel)
          b == loc.branch_name
      IN  /\ Len(calls) = 5 * n + 5
          /\ Len(UpdateCalls) = n
          /\ \A i \in 1..n :
               LET g == calls[3 * i]
                   s == calls[3 * i + 1]
                   r == calls[3 * i + 2]
                   f == calls[3 * n + 3 + 2 * i]
                   u == calls[3 * n + 4 + 2 * i]
                   code == g.found.content
               IN  /\ g.op = "get_contents" /\ g.path = sel[i] /\ g.ref = <<"master">>
                   /\ code = <<"source of ">> \o sel[i]
                   /\ s.op = "chat.completions.create"
                   /\ s.content[1] = "Design Smell Finder"
                   /\ SubSeq(s.content, 4, 3 + Len(code)) = code
                   /\ r.op = "chat.completions.create"
                   /\ r.content[1] = "Refactoring Expert"
                   /\ SubSeq(r.content, 4, 3 + Len(s.answer)) = s.answer
                   /\ SubSeq(r.content, Len(r.content) - Len(code) + 1, Len(r.content)) = code
                   /\ f.op = "get_contents" /\ f.path = sel[i] /\ f.ref = b
                   /\ u.op = "update_file" /\ u.path = sel[i] /\ u.branch = b
                   /\ u.content = r.answer
                   /\ u.sha = f.found.sha
                   /\ github.branches[b].files[sel[i]] = r.answer

\* the two files got different rewrites
C10_Witness ==
    /\ pc = "done" /\ calls # << >> /\ IsOkPull(LastCall)
    /\ Len(loc.selected_files) = 2
    /\ loc.files_refactored[1][2] # loc.files_refactored[2][2]


ListingOk == calls # << >> /\ LastCall.op = "get_git_tree" /\ LastCall.ok

\* a tree holding nothing but blobs ending in ".java", in two directories
OnlyJavaInTwoDirs(tree) ==
    /\ \A it \in tree : it.type = "blob" /\ it.path[Len(it.path)] = ".java"
    /\ Cardinality({dirname(it.path) : it \in tree}) = 2

\* C2: on a tree of only ".java" blobs in two directories and a count >= 1,
\* pick_files returns a non-empty list of at most `count` distinct paths of
\* the tree that all lie in one directory.
C2_SelectionWithinOneDirectory ==
    (probe.called /\ ListingOk /\ OnlyJavaInTwoDirs(github.tree) /\ probe.count >= 1) =>
      /\ probe.outcome.kind = "return"
      /\ LET v == probe.outcome.value
         IN  /\ v # << >>
             /\ Len(v) <= probe.count
             /\ \A i \in 1..Len(v) : v[i] \in {it.path : it \in github.tree}
             /\ \A i, j \in 1..Len(v) : i # j => v[i] # v[j]
             /\ \A i, j \in 1..Len(v) : dirname(v[i]) = dirname(v[j])

\* C9 as stated: whatever the tree and the count, a call whose tree listing
\* succeeded returns the fixed two-file list.
C9_AlwaysFixedList ==
    (probe.called /\ ListingOk /\ probe.count >= 0) =>
      /\ probe.outcome.kind = "return"
      /\ probe.outcome.value = <<RssReader, FeedService>>

\* C9, amended: when the tree listing succeeded, pick_files returns the
\* fixed two-file list, in its fixed order and whatever was sampled, exactly
\* when the tree holds a blob ending in ".java" and the count is not
\* negative; with no such blob it returns the empty list, and with such a
\* blob and a negative count it raises ValueError.
C9_FixedListWhenAnyMatch ==
    (probe.called /\ ListingOk) =>
      IF NoJavaBlob(github.tree)
      THEN probe.outcome.kind = "return" /\ probe.outcome.value = << >>
      ELSE IF probe.count < 0
      THEN probe.outcome.kind = "raise" /\ probe.outcome.type = "ValueError"
      ELSE /\ probe.outcome.kind = "return"
           /\ probe.outcome.value = <<RssReader, FeedService>>

\* a file of directory "a" was sampled and the fixed list came back
C9_Witness ==
    /\ probe.called /\ ListingOk /\ probe.count = 1
    /\ probe.outcome.kind = "return"
    /\ probe.outcome.sampled = << <<"a", "/", "X", ".java">> >>
    /\ probe.outcome.value = <<RssReader, FeedService>>
    /\ [type |-> "blob", path |-> RssReader] \notin github.tree

\* the clock reading without its microseconds
WholeSecond(now) == [now EXCEPT !.microsecond = 0]

\* the number a run of decimal digits spells
RECURSIVE Spelled(_)
Spelled(ds) ==
    IF ds = << >> THEN 0 ELSE 10 * Spelled(SubSeq(ds, 1, Len(ds) - 1)) + ds[Len(ds)]

\* C6: every branch name apply_refactorings_to_files makes is the prefix
\* followed by fourteen decimal digits that spell the year, month, day,
\* hour, minute and second of the clock reading, and two calls whose
\* readings lie in different seconds make different names.
C6_BranchNamesDifferAcrossSeconds ==
    /\ \A a \in 1..Len(applied) :
         LET name == applied[a].branch_name
             now == applied[a].now
         IN  /\ Len(name) = 15 /\ name[1] = "openai-refactor-"
             /\ \A k \in 2..15 : name[k] \in 0..9
             /\ Spelled(SubSeq(name, 2, 5)) = now.year
             /\ Spelled(SubSeq(name, 6, 7)) = now.month
             /\ Spelled(SubSeq(name, 8, 9)) = now.day
             /\ Spelled(SubSeq(name, 10, 11)) = now.hour
             /\ Spelled(SubSeq(name, 12, 13)) = now.minute
             /\ Spelled(SubSeq(name, 14, 15)) = now.second
    /\ \A a, b \in 1..Len(applied) :
         WholeSecond(applied[a].now) # WholeSecond(applied[b].now)
           => applied[a].branch_name # applied[b].branch_name
    /\ DOMAIN github.branches \subseteq {applied[a].branch_name : a \in 1..Len(applied)}

\* two calls, on 11 January and on 1 November, each created its branch
C6_Witness ==
    /\ Len(applied) = 2 /\ pc = "done"
    /\ applied[1].now.month = 1 /\ applied[1].now.day = 11
    /\ applied[2].now.month = 11 /\ applied[2].now.day = 1
    /\ Cardinality(DOMAIN github.branches) = 2

====
